---------------------------- MODULE Spec2Model ----------------------------
(***************************************************************************)
(* A model of goroutine.go: the Goroutine record (AddLine, Freeze, Print)  *)
(* and the GoroutineDump collection (Add, Copy, Dedupe, Delete, Keep,      *)
(* Diff, withCondition).                                                   *)
(*                                                                         *)
(* Strings are sequences of one-character strings.  A *Goroutine is an     *)
(* index into heap; a *GoroutineDump is an index into dumps.  Go's map     *)
(* iteration order is unspecified, so every `range` over a map is a        *)
(* choice among all orders of its keys.                                    *)
(***************************************************************************)
EXTENDS Integers, Sequences, FiniteSets, TLC

VARIABLES
    heap,    \* the allocated Goroutine structs, heap[r] for pointer r
    dumps,   \* the allocated GoroutineDump structs: dumps[d] is d.goroutines
    calls,   \* the number of Copy, Dedupe, Delete, Keep and Diff calls so far
    ret      \* the last call: its name, receiver, arguments and error result

vars == <<heap, dumps, calls, ret>>

-----------------------------------------------------------------------------
(* Bounds *)

\* Goroutine structs allocated in a run of the collection operations.
MaxGoroutines == 3
\* GoroutineDump structs allocated in a run.
MaxDumps == 6
\* Goroutine ids range over 1..MaxId.
MaxId == 3
\* Copy, Dedupe, Delete, Keep and Diff calls in a run.
MaxCalls == 2
\* Body lines appended in a run of the record operations (all records together).
MaxLines == 3

-----------------------------------------------------------------------------
(* Strings *)

\* The byte value of each character that occurs in the modelled input.
Ascii(c) ==
    CASE c = "\n" -> 10  [] c = " " -> 32  [] c = "(" -> 40  [] c = ")" -> 41
      [] c = "," -> 44   [] c = "." -> 46  [] c = "0" -> 48  [] c = "1" -> 49
      [] c = "2" -> 50   [] c = "A" -> 65  [] c = "a" -> 97  [] c = "b" -> 98
      [] c = "c" -> 99   [] c = "d" -> 100 [] c = "e" -> 101 [] c = "f" -> 102
      [] c = "g" -> 103  [] c = "x" -> 120

\* []byte(s)
Bytes(s) == [i \in 1..Len(s) |-> Ascii(s[i])]

HexDigits == <<"0", "1", "2", "3", "4", "5", "6", "7",
               "8", "9", "a", "b", "c", "d", "e", "f">>

\* hex.EncodeToString: two lower-case hexadecimal digits per byte.
HexEncode(bs) ==
    [i \in 1..(2 * Len(bs)) |->
        LET b == bs[(i + 1) \div 2]
        IN  IF i % 2 = 1 THEN HexDigits[(b \div 16) + 1]
                         ELSE HexDigits[(b % 16) + 1]]

\* md5.New().Sum(nil): the digest of a hasher nothing was written to.
Md5OfNothing ==
    <<212, 29, 140, 217, 143, 0, 178, 4, 233, 128, 9, 152, 236, 248, 66, 126>>

\* fullHasher.Sum(b): appends the hasher's current digest to b.  No code
\* writes to fullHasher, so the digest is always that of the empty input.
HasherSum(b) == b \o Md5OfNothing

-----------------------------------------------------------------------------
(* lineWithArgs = \((0x[0-9a-f ,]+)+\)$ *)

\* [0-9a-f ,]
ArgChars == {"0", "1", "2", "3", "4", "5", "6", "7", "8", "9",
             "a", "b", "c", "d", "e", "f", " ", ","}

\* The pattern without the repetition of its group: s matches
\* 0x[0-9a-f ,]+ as a whole.
MatchesOneArgGroup(s) ==
    /\ Len(s) >= 3
    /\ s[1] = "0"
    /\ s[2] = "x"
    /\ \A j \in 3..Len(s) : s[j] \in ArgChars

\* s matches (0x[0-9a-f ,]+)+ as a whole.
RECURSIVE MatchesArgGroups(_)
MatchesArgGroups(s) ==
    /\ Len(s) >= 3
    /\ s[1] = "0"
    /\ s[2] = "x"
    /\ \E k \in 3..Len(s) :
          /\ \A j \in 3..k : s[j] \in ArgChars
          /\ \/ k = Len(s)
             \/ MatchesArgGroups(SubSeq(s, k + 1, Len(s)))

\* The pattern matches l from position i to the end of l.
MatchesFrom(l, i) ==
    /\ l[i] = "("
    /\ l[Len(l)] = ")"
    /\ MatchesArgGroups(SubSeq(l, i + 1, Len(l) - 1))

\* lineWithArgs.MatchString(l)
MatchString(l) == \E i \in 1..Len(l) : MatchesFrom(l, i)

\* lineWithArgs.Split(l, -1)[0] for a line the pattern matches: the text
\* before the leftmost match.
SplitFirst(l) ==
    LET i == CHOOSE i \in 1..Len(l) :
                 /\ MatchesFrom(l, i)
                 /\ \A j \in 1..(i - 1) : ~MatchesFrom(l, j)
    IN  SubSeq(l, 1, i - 1)

-----------------------------------------------------------------------------
(* Goroutine *)

\* NewGoroutine on the metadata line "goroutine <id> [running]:".
NewGoroutine(id) ==
    [id           |-> id,
     lines        |-> 1,
     header       |-> [prefix |-> "goroutine ", id |-> id, rest |-> " [running]:"],
     buf          |-> <<>>,
     bufScrubbed  |-> <<>>,
     duration     |-> 0,
     metas        |-> [MetaState |-> "running"],
     scrubbedHash |-> <<>>,
     duplicates   |-> <<>>,
     frozen       |-> FALSE]

\* AddLine without its test of g.frozen.
AddLineUnguarded(g, l) ==
    [g EXCEPT
        !.lines = @ + 1,
        !.buf = @ \o l \o <<"\n">>,
        !.bufScrubbed =
            IF MatchString(l)
            THEN @ \o SplitFirst(l) \o <<"(", ".", ".", ".", ")", "\n">>
            ELSE @ \o l \o <<"\n">>]

\* g.AddLine(l): the struct after the call.
AddLine(g, l) ==
    IF ~g.frozen
    THEN [g EXCEPT
            !.lines = @ + 1,
            !.buf = @ \o l \o <<"\n">>,
            !.bufScrubbed =
                IF MatchString(l)
                THEN @ \o SplitFirst(l) \o <<"(", ".", ".", ".", ")", "\n">>
                ELSE @ \o l \o <<"\n">>]
    ELSE g

\* g.Freeze(): the struct after the call.
Freeze(g) ==
    IF ~g.frozen
    THEN [g EXCEPT
            !.frozen = TRUE,
            !.scrubbedHash = HexEncode(HasherSum(Bytes(g.bufScrubbed)))]
    ELSE g


\* scrubHeader: every run of digits becomes "~".  The only digits of the
\* modelled header are those of the id.
scrubHeader(h) == <<h.prefix, "~", h.rest>>

\* g.Print(w): what is written to w.
GoroutinePrint(g) ==
    IF Len(g.duplicates) > 1
    THEN [header |-> scrubHeader(g.header),
          times  |-> Len(g.duplicates),
          ids    |-> g.duplicates,
          body   |-> g.bufScrubbed]
    ELSE [header |-> <<g.header.prefix, g.header.id, g.header.rest>>,
          times  |-> 0,
          ids    |-> <<>>,
          body   |-> g.buf]

-----------------------------------------------------------------------------
(* Input lines *)

Line1 == <<"f", "(", "0", "x", "1", ",", " ", "0", "x", "2", ")">>
Line2 == <<"f", "(", "0", "x", "a", "b", "c", ",", " ",
           "0", "x", "d", "e", "f", ")">>
Line3 == <<"g", "(", "0", "x", "1", ")">>
Line4 == <<"f", "(", ".", ".", ".", ")">>
Line5 == <<"f", "(", ")">>
Line6 == <<"f", "(", "0", "x", "A", ")">>
Line7 == <<"f", "(", "0", "x", "1", ")", "(", "0", "x", "2", ")">>
Line8 == <<"f", "(", "0", "x", "1", "0", "x", "2", ")">>
Line9 == <<"f", "(", "0", "x", "0", "x", "1", ")">>

\* The body lines the record operations are run on.
Lines == {Line1, Line2, Line3, Line4, Line5, Line6, Line7, Line8, Line9}

\* The bodies of the goroutines the collection operations are run on.
Bodies == {<<Line1>>, <<Line2>>, <<Line3, Line5>>}

Ids == 1..MaxId

\* The record the loader hands to Add: created from its metadata line,
\* given its body lines, frozen.
RECURSIVE AddLines(_, _)
AddLines(g, body) ==
    IF body = <<>> THEN g ELSE AddLines(AddLine(g, Head(body)), Tail(body))

Parsed(id, body) == Freeze(AddLines(NewGoroutine(id), body))

-----------------------------------------------------------------------------
(* The predicate language.  A condition is an expression of the govaluate  *)
(* library, here one of:                                                    *)
(*   malformed      an expression that does not compile                     *)
(*   idLe k         id <= k                                                 *)
(*   dupsGt k       dups > k                                                *)
(*   linesGt k      lines > k                                               *)
(*   arity k        id <= k || contains(trace)                              *)
(*   number k       id <= k ? true : id                                     *)

Cond(kind, k) == [kind |-> kind, k |-> k]

NoCond == Cond("none", 0)

\* Copy's cond == "".
EmptyCond == Cond("empty", 0)

\* The conditions Delete and Keep are called with.
Conds == {Cond("malformed", 0), Cond("idLe", 1), Cond("dupsGt", 1),
          Cond("arity", 1), Cond("number", 2)}

\* The conditions Copy is called with: all, some, and one that fails.
CopyConds == {EmptyCond, Cond("idLe", 1), Cond("arity", 1)}

\* govaluate.NewEvaluableExpressionWithFunctions(cond, functions) succeeds.
Compiles(cond) == cond.kind \notin {"malformed", "empty"}

\* functions["contains"] called with n arguments: it fails unless n = 2.
ContainsFails(n) == n # 2

\* The parameters withCondition hands to the expression for g.
Params(g) ==
    [id       |-> g.id,
     dups     |-> Len(g.duplicates),
     duration |-> g.duration,
     lines    |-> g.lines,
     state    |-> g.metas.MetaState,
     trace    |-> g.buf]

Bool(b) == [tag |-> "bool", val |-> b]

\* expression.Evaluate(params): an error, a boolean or a number.
Evaluate(cond, params) ==
    CASE cond.kind = "idLe"    -> Bool(params.id <= cond.k)
      [] cond.kind = "dupsGt"  -> Bool(params.dups > cond.k)
      [] cond.kind = "linesGt" -> Bool(params.lines > cond.k)
      [] cond.kind = "arity"   ->
            IF params.id <= cond.k THEN Bool(TRUE)
            ELSE IF ContainsFails(1) THEN [tag |-> "error"]
            ELSE Bool(FALSE)
      [] cond.kind = "number"  ->
            IF params.id <= cond.k THEN Bool(TRUE)
            ELSE [tag |-> "number", val |-> params.id]

\* The callback of Delete written as that of Keep.
DeleteCallbackAsKeep(passed) == passed

\* The callbacks of Delete, Keep and Copy: whether they return g (not nil).
DeleteCallback(passed) == ~passed

KeepCallback(passed) == passed

CopyCallback(passed) == passed

Callback(op, passed) ==
    CASE op = "Delete" -> DeleteCallback(passed)
      [] op = "Keep"   -> KeepCallback(passed)
      [] op = "Copy"   -> CopyCallback(passed)

\* The loop of withCondition from index i on, with the goroutines collected
\* so far: the slice and whether an error is returned.
RECURSIVE WithConditionLoop(_, _, _, _, _, _)
WithConditionLoop(h, gs, cond, op, i, goroutines) ==
    IF i > Len(gs) THEN [err |-> FALSE, goroutines |-> goroutines]
    ELSE LET res == Evaluate(cond, Params(h[gs[i]]))
         IN  IF res.tag = "error" THEN [err |-> TRUE, goroutines |-> <<>>]
             ELSE IF res.tag = "bool"
             THEN WithConditionLoop(h, gs, cond, op, i + 1,
                      IF Callback(op, res.val)
                      THEN Append(goroutines, gs[i]) ELSE goroutines)
             ELSE [err |-> TRUE, goroutines |-> <<>>]

\* gd.withCondition(cond, callback) on the slice gs, in the heap h.
withCondition(h, gs, cond, op) ==
    IF ~Compiles(cond) THEN [err |-> TRUE, goroutines |-> <<>>]
    ELSE WithConditionLoop(h, gs, cond, op, 1, <<>>)

-----------------------------------------------------------------------------
(* Maps *)

\* The orders in which `range` may visit the keys of a map: every
\* arrangement of the keys.
RangeOrders(keys) ==
    {o \in [1..Cardinality(keys) -> keys] :
        \A i, j \in 1..Cardinality(keys) : i # j => o[i] # o[j]}

-----------------------------------------------------------------------------
(* Dedupe *)

\* The map without the first id of each digest.
DedupeMapOfLaterIds(h, gs) ==
    [digest \in {h[gs[i]].scrubbedHash : i \in 1..Len(gs)} |->
        LET same == SelectSeq(gs, LAMBDA r : h[r].scrubbedHash = digest)
        IN  [i \in 1..(Len(same) - 1) |-> h[same[i + 1]].id]]

\* The first loop of Dedupe: the map from each digest to the ids of the
\* goroutines with that digest, in the order of gs.
DedupeMap(h, gs) ==
    [digest \in {h[gs[i]].scrubbedHash : i \in 1..Len(gs)} |->
        LET same == SelectSeq(gs, LAMBDA r : h[r].scrubbedHash = digest)
        IN  [i \in 1..Len(same) |-> h[same[i]].id]]

\* The inner loop without its break: the last goroutine of gs with the
\* digest.
LastWithDigest(h, gs, digest) ==
    gs[CHOOSE i \in 1..Len(gs) :
          /\ h[gs[i]].scrubbedHash = digest
          /\ \A j \in (i + 1)..Len(gs) : h[gs[j]].scrubbedHash # digest]

\* The inner loop of Dedupe: the first goroutine of gs with the digest.
FirstWithDigest(h, gs, digest) ==
    gs[CHOOSE i \in 1..Len(gs) :
          /\ h[gs[i]].scrubbedHash = digest
          /\ \A j \in 1..(i - 1) : h[gs[j]].scrubbedHash # digest]

\* The second loop of Dedupe, the digests visited in the given order:
\* the slice kept.
DedupeKept(h, gs, order) ==
    [i \in 1..Len(order) |-> FirstWithDigest(h, gs, order[i])]

\* The heap after the second loop: each goroutine kept has its duplicates
\* set to the ids of its digest.
DedupeHeap(h, gs) ==
    LET m == DedupeMap(h, gs)
    IN  [r \in DOMAIN h |->
            IF \E digest \in DOMAIN m : FirstWithDigest(h, gs, digest) = r
            THEN [h[r] EXCEPT !.duplicates = m[h[r].scrubbedHash]]
            ELSE h[r]]

-----------------------------------------------------------------------------
(* Diff *)

\* m with key k set to v.
MapPut(m, k, v) ==
    [x \in DOMAIN m \cup {k} |-> IF x = k THEN v ELSE m[x]]

\* m without key k.
MapDelete(m, k) == [x \in DOMAIN m \ {k} |-> m[x]]

EmptyMap == [x \in {} |-> 0]

\* The first loop of Diff, from index i on: lonly.
RECURSIVE DiffLeft(_, _, _, _)
DiffLeft(h, gs, i, lonly) ==
    IF i > Len(gs) THEN lonly
    ELSE DiffLeft(h, gs, i + 1, MapPut(lonly, h[gs[i]].id, gs[i]))

\* The second loop with common taking the goroutine of lonly, not v.
RECURSIVE DiffRightKeepingLeft(_, _, _, _)
DiffRightKeepingLeft(h, gs, i, maps) ==
    IF i > Len(gs) THEN maps
    ELSE LET v  == gs[i]
             id == h[v].id
         IN  IF id \in DOMAIN maps.lonly
             THEN DiffRightKeepingLeft(h, gs, i + 1,
                      [maps EXCEPT !.lonly  = MapDelete(@, id),
                                   !.common = MapPut(@, id, maps.lonly[id])])
             ELSE DiffRightKeepingLeft(h, gs, i + 1,
                      [maps EXCEPT !.ronly = MapPut(@, id, v)])

\* The second loop of Diff, from index i on: the three maps.
RECURSIVE DiffRight(_, _, _, _)
DiffRight(h, gs, i, maps) ==
    IF i > Len(gs) THEN maps
    ELSE LET v  == gs[i]
             id == h[v].id
         IN  IF id \in DOMAIN maps.lonly
             THEN DiffRight(h, gs, i + 1,
                      [maps EXCEPT !.lonly  = MapDelete(@, id),
                                   !.common = MapPut(@, id, v)])
             ELSE DiffRight(h, gs, i + 1,
                      [maps EXCEPT !.ronly = MapPut(@, id, v)])

\* The maps lonly, common and ronly of gd.Diff(another).
DiffMaps(h, left, right) ==
    DiffRight(h, right, 1,
        [lonly  |-> DiffLeft(h, left, 1, EmptyMap),
         common |-> EmptyMap,
         ronly  |-> EmptyMap])

\* NewGoroutineDumpFromMap(gs), the map visited in the given order.
NewGoroutineDumpFromMap(gs, order) == [i \in 1..Len(order) |-> gs[order[i]]]

-----------------------------------------------------------------------------
(* The calls *)

Call(op, recv, arg, cond, err) ==
    [op |-> op, recv |-> recv, arg |-> arg, cond |-> cond, err |-> err]

\* NewGoroutineDump()
NewGoroutineDump == <<>>

\* The ids of the goroutines of the slice gs.
IdsOf(h, gs) == {h[gs[i]].id : i \in 1..Len(gs)}

\* dumps[d].Add(g), g a goroutine the loader has just parsed and frozen.
Add(d, id, body) ==
    /\ Len(heap) < MaxGoroutines
    /\ heap' = Append(heap, Parsed(id, body))
    /\ dumps' = [dumps EXCEPT ![d] = Append(@, Len(heap) + 1)]
    /\ ret' = Call("Add", d, Len(heap) + 1, NoCond, FALSE)
    /\ UNCHANGED calls

\* dumps[d].Copy(cond): the new dump, or nil on an error.
Copy(d, cond) ==
    /\ calls < MaxCalls
    /\ Len(dumps) < MaxDumps
    /\ calls' = calls + 1
    /\ IF cond = EmptyCond
       THEN /\ dumps' = Append(dumps, dumps[d])
            /\ ret' = Call("Copy", d, 0, cond, FALSE)
       ELSE LET res == withCondition(heap, dumps[d], cond, "Copy")
            IN  /\ dumps' = IF res.err THEN dumps
                            ELSE Append(dumps, res.goroutines)
                /\ ret' = Call("Copy", d, 0, cond, res.err)
    /\ UNCHANGED heap

\* dumps[d].Dedupe()
Dedupe(d) ==
    /\ calls < MaxCalls
    /\ calls' = calls + 1
    /\ \E order \in RangeOrders(DOMAIN DedupeMap(heap, dumps[d])) :
          LET kept == DedupeKept(heap, dumps[d], order)
          IN  /\ heap' = DedupeHeap(heap, dumps[d])
              /\ dumps' = IF Len(dumps[d]) # Len(kept)
                          THEN [dumps EXCEPT ![d] = kept]
                          ELSE dumps
    /\ ret' = Call("Dedupe", d, 0, NoCond, FALSE)

\* Delete assigning the slice before it looks at the error.
DeleteBeforeErrCheck(d, cond) ==
    /\ calls < MaxCalls
    /\ calls' = calls + 1
    /\ LET res == withCondition(heap, dumps[d], cond, "Delete")
       IN  /\ dumps' = [dumps EXCEPT ![d] = res.goroutines]
           /\ ret' = Call("Delete", d, 0, cond, res.err)
    /\ UNCHANGED heap

\* dumps[d].Delete(cond)
Delete(d, cond) ==
    /\ calls < MaxCalls
    /\ calls' = calls + 1
    /\ LET res == withCondition(heap, dumps[d], cond, "Delete")
       IN  /\ dumps' = IF res.err THEN dumps
                       ELSE [dumps EXCEPT ![d] = res.goroutines]
           /\ ret' = Call("Delete", d, 0, cond, res.err)
    /\ UNCHANGED heap

\* dumps[d].Keep(cond)
Keep(d, cond) ==
    /\ calls < MaxCalls
    /\ calls' = calls + 1
    /\ LET res == withCondition(heap, dumps[d], cond, "Keep")
       IN  /\ dumps' = IF res.err THEN dumps
                       ELSE [dumps EXCEPT ![d] = res.goroutines]
           /\ ret' = Call("Keep", d, 0, cond, res.err)
    /\ UNCHANGED heap

\* dumps[l].Diff(dumps[r]): three new dumps, lonly, common and ronly.
Diff(l, r) ==
    /\ calls < MaxCalls
    /\ Len(dumps) + 3 <= MaxDumps
    /\ calls' = calls + 1
    /\ LET maps == DiffMaps(heap, dumps[l], dumps[r])
       IN  \E ol \in RangeOrders(DOMAIN maps.lonly),
              oc \in RangeOrders(DOMAIN maps.common),
              or \in RangeOrders(DOMAIN maps.ronly) :
              dumps' = dumps \o
                  <<NewGoroutineDumpFromMap(maps.lonly, ol),
                    NewGoroutineDumpFromMap(maps.common, oc),
                    NewGoroutineDumpFromMap(maps.ronly, or)>>
    /\ ret' = Call("Diff", l, r, NoCond, FALSE)
    /\ UNCHANGED heap

\* Two dumps, created empty, that the loader fills and the calls work on.
Init ==
    /\ heap = <<>>
    /\ dumps = <<NewGoroutineDump, NewGoroutineDump>>
    /\ calls = 0
    /\ ret = Call("NewGoroutineDump", 2, 0, NoCond, FALSE)

\* The loader fills one dump after the other, before the first call, from
\* the dump file of one runtime: no two goroutines of a dump have the same id.
Next ==
    \/ \E d \in DOMAIN dumps, body \in Bodies :
          /\ calls = 0
          /\ \A e \in DOMAIN dumps : e > d => dumps[e] = <<>>
          /\ \E id \in Ids \ IdsOf(heap, dumps[d]) : Add(d, id, body)
    \/ \E d \in DOMAIN dumps, cond \in CopyConds : Copy(d, cond)
    \/ \E d \in DOMAIN dumps : Dedupe(d)
    \/ \E d \in DOMAIN dumps, cond \in Conds : Delete(d, cond)
    \/ \E d \in DOMAIN dumps, cond \in Conds : Keep(d, cond)
    \/ \E l, r \in DOMAIN dumps : Diff(l, r)

\* The collection operations, on goroutines the loader has frozen.
Spec == Init /\ [][Next]_vars

-----------------------------------------------------------------------------
(* The record operations, on two goroutines under construction *)

\* Body lines appended so far.
LinesAdded == heap[1].lines + heap[2].lines - 2

\* heap[r].AddLine(l)
DoAddLine(r, l) ==
    /\ heap[r].frozen \/ LinesAdded < MaxLines
    /\ heap' = [heap EXCEPT ![r] = AddLine(@, l)]
    /\ ret' = Call("AddLine", r, 0, NoCond, FALSE)
    /\ UNCHANGED <<dumps, calls>>

\* heap[r].Freeze()
DoFreeze(r) ==
    /\ heap' = [heap EXCEPT ![r] = Freeze(@)]
    /\ ret' = Call("Freeze", r, 0, NoCond, FALSE)
    /\ UNCHANGED <<dumps, calls>>

RecordInit ==
    /\ heap = <<NewGoroutine(1), NewGoroutine(2)>>
    /\ dumps = <<>>
    /\ calls = 0
    /\ ret = Call("NewGoroutine", 2, 0, NoCond, FALSE)

RecordNext ==
    \/ \E r \in DOMAIN heap, l \in Lines : DoAddLine(r, l)
    \/ \E r \in DOMAIN heap : DoFreeze(r)

RecordSpec == RecordInit /\ [][RecordNext]_vars

-----------------------------------------------------------------------------
(* Properties of the record operations *)

\* The lines of a buffer: the text before each "\n".
RECURSIVE SplitLines(_)
SplitLines(buf) ==
    IF buf = <<>> THEN <<>>
    ELSE LET n == CHOOSE k \in 1..Len(buf) :
                      /\ buf[k] = "\n"
                      /\ \A j \in 1..(k - 1) : buf[j] # "\n"
         IN  <<SubSeq(buf, 1, n - 1)>> \o SplitLines(SubSeq(buf, n + 1, Len(buf)))

\* s is a list of hexadecimal arguments: it starts with "0x", holds only
\* digits, a to f, blanks, commas and "x", and every "x" follows a "0", is
\* followed by a character that is not "x", and, after the first, leaves
\* at least one character to the argument before it.
IsHexArgs(s) ==
    /\ Len(s) >= 3
    /\ s[1] = "0"
    /\ s[2] = "x"
    /\ \A p \in 1..Len(s) :
          /\ s[p] \in ArgChars \cup {"x"}
          /\ s[p] = "x" =>
                /\ p > 1
                /\ p < Len(s)
                /\ s[p - 1] = "0"
                /\ s[p + 1] # "x"
                /\ p > 2 => (p >= 5 /\ s[p - 2] # "x")

\* The line with its trailing parenthesized group of hexadecimal arguments,
\* if it has one, replaced by "(...)".
WithPlaceholder(l) ==
    LET opens == {i \in 1..Len(l) :
                     /\ l[i] = "("
                     /\ l[Len(l)] = ")"
                     /\ IsHexArgs(SubSeq(l, i + 1, Len(l) - 1))}
    IN  IF opens = {} THEN l
        ELSE SubSeq(l, 1, (CHOOSE i \in opens : TRUE) - 1)
                 \o <<"(", ".", ".", ".", ")">>

\* The body lines of g, each with its argument group replaced.
NormalizedLines(g) ==
    LET ls == SplitLines(g.buf)
    IN  [i \in 1..Len(ls) |-> WithPlaceholder(ls[i])]

\* C4: two frozen goroutines have the same scrubbedHash if and only if
\* their body lines, each with its trailing group of hexadecimal arguments
\* replaced by "(...)", are the same sequence of lines.
C4_FingerprintIffNormalizedBody ==
    \A a, b \in DOMAIN heap :
        (heap[a].frozen /\ heap[b].frozen) =>
            ((heap[a].scrubbedHash = heap[b].scrubbedHash)
                <=> (NormalizedLines(heap[a]) = NormalizedLines(heap[b])))

\* Two frozen goroutines whose bodies differ in the values of the arguments
\* have the same scrubbedHash, and a third body has another.
C4_Witness ==
    /\ heap[1].frozen
    /\ heap[2].frozen
    /\ heap[1].buf = Line1 \o <<"\n">> \o Line5 \o <<"\n">>
    /\ heap[2].buf = Line2 \o <<"\n">>
    /\ heap[1].scrubbedHash # heap[2].scrubbedHash
    /\ heap[2].scrubbedHash = Parsed(1, <<Line1>>).scrubbedHash

\* C8: every step leaves a frozen goroutine's lines, buf, bufScrubbed and
\* scrubbedHash (and frozen) as they are.
C8_FrozenIsImmutable ==
    [][\A r \in DOMAIN heap :
          heap[r].frozen =>
              /\ heap'[r].frozen
              /\ heap'[r].lines = heap[r].lines
              /\ heap'[r].buf = heap[r].buf
              /\ heap'[r].bufScrubbed = heap[r].bufScrubbed
              /\ heap'[r].scrubbedHash = heap[r].scrubbedHash]_vars

\* AddLine has been called on a frozen goroutine that has body lines, while
\* the other goroutine could still take one.
C8_Witness ==
    /\ ret.op = "AddLine"
    /\ heap[ret.recv].frozen
    /\ heap[ret.recv].lines = 2
    /\ LinesAdded < MaxLines

-----------------------------------------------------------------------------
(* Properties of the collection operations *)

Digest(h, r) == h[r].scrubbedHash

\* The position of r in the slice gs.
Pos(gs, r) == CHOOSE i \in 1..Len(gs) : gs[i] = r

\* The goroutines of post are goroutines of pre, in the order of pre.
KeepsOrder(pre, post) ==
    /\ \A j \in 1..Len(post) : \E i \in 1..Len(pre) : pre[i] = post[j]
    /\ \A a, b \in 1..Len(post) :
          a < b => Pos(pre, post[a]) < Pos(pre, post[b])

\* The ids of the goroutines of gs with the digest of r, in the order of gs.
GroupIds(h, gs, r) ==
    LET group == SelectSeq(gs, LAMBDA x : Digest(h, x) = Digest(h, r))
    IN  [i \in 1..Len(group) |-> h[group[i]].id]

\* No two goroutines of gs have the same id.
UniqueIds(h, gs) ==
    \A i, j \in 1..Len(gs) : h[gs[i]].id = h[gs[j]].id => i = j

\* C1: after dumps[d].Dedupe(), the dump holds exactly one goroutine for
\* each digest it held before; that goroutine is the first of the earlier
\* slice with its digest, and its duplicates are the ids of all goroutines
\* of the earlier slice with that digest.
C1_DedupeOnePerFingerprint ==
    [][ret'.op = "Dedupe" =>
          LET pre  == dumps[ret'.recv]
              post == dumps'[ret'.recv]
          IN  /\ \A i \in 1..Len(pre) :
                    Cardinality({j \in 1..Len(post) :
                        Digest(heap', post[j]) = Digest(heap, pre[i])}) = 1
              /\ \A j \in 1..Len(post) :
                    /\ \E i \in 1..Len(pre) :
                          /\ pre[i] = post[j]
                          /\ \A k \in 1..(i - 1) :
                                Digest(heap, pre[k]) # Digest(heap, pre[i])
                    /\ heap'[post[j]].duplicates = GroupIds(heap, pre, post[j])
       ]_vars

\* The scenario of the specification: goroutines 1 and 2 differ in the
\* values of their arguments only; after Dedupe the dump holds goroutine 1
\* alone, with duplicates [1, 2].
C1_Witness ==
    /\ ret.op = "Dedupe"
    /\ ret.recv = 1
    /\ Len(heap) = 2
    /\ heap[1].buf = Line1 \o <<"\n">>
    /\ heap[2].buf = Line2 \o <<"\n">>
    /\ dumps[1] = <<1>>
    /\ heap[1].id = 1
    /\ heap[1].duplicates = <<1, 2>>

\* C2: when dumps[d].Dedupe() removes a goroutine, the goroutines it keeps
\* are in the order they had before the call.
C2_DedupeKeepsOrder ==
    [][(ret'.op = "Dedupe"
          /\ Len(dumps'[ret'.recv]) < Len(dumps[ret'.recv])) =>
          KeepsOrder(dumps[ret'.recv], dumps'[ret'.recv])]_vars

\* C3: a second dumps[d].Dedupe() right after the first changes nothing:
\* not the slice, nor the duplicates of its goroutines, nor what Print
\* writes for them, nor their dups parameter.
C3_DedupeIdempotent ==
    [][(ret.op = "Dedupe" /\ ret'.op = "Dedupe" /\ ret'.recv = ret.recv) =>
          /\ dumps'[ret.recv] = dumps[ret.recv]
          /\ \A i \in 1..Len(dumps[ret.recv]) :
                LET r == dumps[ret.recv][i]
                IN  /\ heap'[r].duplicates = heap[r].duplicates
                    /\ GoroutinePrint(heap'[r]) = GoroutinePrint(heap[r])
                    /\ Params(heap'[r]).dups = Params(heap[r]).dups]_vars


\* The call of Delete or Keep with cond on the slice gs fails: cond does not
\* compile, or its evaluation on some goroutine of gs raises an error or
\* yields a value that is not a boolean.
Fails(h, gs, cond) ==
    \/ ~Compiles(cond)
    \/ \E i \in 1..Len(gs) : Evaluate(cond, Params(h[gs[i]])).tag # "bool"

\* C5: a Delete or Keep call returns an error exactly when it fails, and
\* then leaves every dump (and every goroutine) as it was.
C5_FailedFilterChangesNothing ==
    [][ret'.op \in {"Delete", "Keep"} =>
          /\ ret'.err <=> Fails(heap, dumps[ret'.recv], ret'.cond)
          /\ ret'.err => (dumps' = dumps /\ heap' = heap)]_vars

\* Delete has failed with an arity error on the second goroutine of a dump
\* whose first goroutine the condition had accepted.
C5_Witness ==
    /\ ret.op = "Delete"
    /\ ret.err
    /\ ret.cond = Cond("arity", 1)
    /\ Len(dumps[ret.recv]) = 2
    /\ heap[dumps[ret.recv][1]].id = 1
    /\ heap[dumps[ret.recv][2]].id = 2

\* The slices Keep(P) and Delete(P) make of the slice C split it: each
\* keeps the order of C, no id is in both, and every id of C is in one.
Splits(h, C, kept, deleted) ==
    /\ KeepsOrder(C, kept)
    /\ KeepsOrder(C, deleted)
    /\ UniqueIds(h, kept)
    /\ UniqueIds(h, deleted)
    /\ IdsOf(h, kept) \cap IdsOf(h, deleted) = {}
    /\ IdsOf(h, kept) \cup IdsOf(h, deleted) = IdsOf(h, C)

\* C6: for a condition P that evaluates without error on the dump C, what
\* Keep(P) leaves of C and what Delete(P) leaves of C split C, and a
\* Delete(P) right after a Keep(P) on the same dump leaves it empty.
C6_KeepAndDeleteAreComplements ==
    [][/\ (ret'.op = "Keep" /\ ~ret'.err) =>
             LET C == dumps[ret'.recv]
                 deleted == withCondition(heap, C, ret'.cond, "Delete")
             IN  /\ ~deleted.err
                 /\ Splits(heap, C, dumps'[ret'.recv], deleted.goroutines)
       /\ (ret'.op = "Delete" /\ ~ret'.err) =>
             LET C == dumps[ret'.recv]
                 kept == withCondition(heap, C, ret'.cond, "Keep")
             IN  /\ ~kept.err
                 /\ Splits(heap, C, kept.goroutines, dumps'[ret'.recv])
       /\ (/\ ret.op = "Keep" /\ ~ret.err
           /\ ret'.op = "Delete" /\ ret'.recv = ret.recv
           /\ ret'.cond = ret.cond) =>
             (~ret'.err /\ dumps'[ret.recv] = <<>>)]_vars

\* Keep(id <= 1) has kept one goroutine of three, and a Delete can follow.
C6_Witness ==
    /\ ret.op = "Keep"
    /\ ~ret.err
    /\ ret.cond = Cond("idLe", 1)
    /\ ret.recv = 1
    /\ calls = 1
    /\ Len(heap) = 3
    /\ dumps[2] = <<>>
    /\ Len(dumps[1]) = 1

\* C7: for dumps L and R without repeated ids, L.Diff(R) returns dumps
\* lonly, common and ronly without repeated ids, whose sets of ids are
\* ids(L) \ ids(R), ids(L) \cap ids(R) and ids(R) \ ids(L) (so they are
\* pairwise disjoint and their union is that of ids(L) and ids(R)), and
\* every goroutine of common is a goroutine of R.
C7_DiffPartitions ==
    [][ret'.op = "Diff" =>
          LET L == dumps[ret'.recv]
              R == dumps[ret'.arg]
              lonly  == dumps'[Len(dumps) + 1]
              common == dumps'[Len(dumps) + 2]
              ronly  == dumps'[Len(dumps) + 3]
              idsL == IdsOf(heap, L)
              idsR == IdsOf(heap, R)
          IN  (UniqueIds(heap, L) /\ UniqueIds(heap, R)) =>
                 /\ Len(dumps') = Len(dumps) + 3
                 /\ UniqueIds(heap, lonly)
                 /\ UniqueIds(heap, common)
                 /\ UniqueIds(heap, ronly)
                 /\ IdsOf(heap, lonly) = idsL \ idsR
                 /\ IdsOf(heap, common) = idsL \cap idsR
                 /\ IdsOf(heap, ronly) = idsR \ idsL
                 /\ IdsOf(heap, lonly) \cap IdsOf(heap, common) = {}
                 /\ IdsOf(heap, lonly) \cap IdsOf(heap, ronly) = {}
                 /\ IdsOf(heap, common) \cap IdsOf(heap, ronly) = {}
                 /\ IdsOf(heap, lonly) \cup IdsOf(heap, common)
                        \cup IdsOf(heap, ronly) = idsL \cup idsR
                 /\ \A i \in 1..Len(lonly) :
                       \E j \in 1..Len(L) : L[j] = lonly[i]
                 /\ \A i \in 1..Len(common) :
                       \E j \in 1..Len(R) : R[j] = common[i]
                 /\ \A i \in 1..Len(ronly) :
                       \E j \in 1..Len(R) : R[j] = ronly[i]]_vars

\* Diff of two loaded dumps has found a goroutine of the left dump only and
\* one common id, whose goroutine in the left dump is another struct.
C7_Witness ==
    /\ ret.op = "Diff"
    /\ ret.recv = 1
    /\ ret.arg = 2
    /\ Len(dumps) = 5
    /\ Len(dumps[3]) = 1
    /\ Len(dumps[4]) = 1
    /\ dumps[5] = <<>>
    /\ \A i \in 1..Len(dumps[1]) : dumps[1][i] # dumps[4][1]

\* C9: dumps[d].Dedupe() leaves the duplicates of the goroutines of every
\* other dump as they were.
C9_DedupeWritesOwnRecordsOnly ==
    [][ret'.op = "Dedupe" =>
          \A e \in DOMAIN dumps \ {ret'.recv} :
              \A i \in 1..Len(dumps[e]) :
                  heap'[dumps[e][i]].duplicates
                      = heap[dumps[e][i]].duplicates]_vars

\* The ids a slice holds.
Elements(ids) == {ids[i] : i \in 1..Len(ids)}

\* C10: the duplicates of every goroutine are empty or hold its own id.
C10_DuplicatesHoldOwnId ==
    \A r \in DOMAIN heap :
        \/ heap[r].duplicates = <<>>
        \/ heap[r].id \in Elements(heap[r].duplicates)

\* A goroutine has the duplicates of a group of two, and is in two dumps.
C10_Witness ==
    \E r \in DOMAIN heap :
        /\ Len(heap[r].duplicates) = 2
        /\ \E d, e \in DOMAIN dumps :
              /\ d # e
              /\ r \in Elements(dumps[d])
              /\ r \in Elements(dumps[e])

=============================================================================
